---- MODULE Spec2Model ----
(***************************************************************************)
(* slack_emoji_uploader: main() (removal phase, bounded upload phase) and  *)
(* load_settings(), modelled from src/slack_emoji_uploader/__init__.py.    *)
(***************************************************************************)
EXTENDS Integers, Sequences, FiniteSets, TLC

\* ---------------------------------------------------------------- bounds
MaxThreads == 2
\* ids configured over the whole range (sum of the lengths of the "k.id" lists)
MaxConfigured == 3

\* ------------------------------------------------------- input universes
Ids == {"a", "b"}
\* range positions k that may carry "k.id" / "k.filename", and the values of
\* --start and --finish
Positions == 1..2

\* The empty string: ''.split('|') == [''].
EmptyName == <<>>

SeqsUpTo(S, n) == UNION {[1..m -> S] : m \in 1..n}

Range(s) == {s[i] : i \in 1..Len(s)}

Min(x, y) == IF x <= y THEN x ELSE y

VARIABLES
    \* ---- main()
    args,             \* parsed command line: start, finish, remove, upload, dry_run, threads
    settings,         \* per position k: the fields of "k.id" and "k.filename"
    snapshot,         \* result of get_current_state(), kept for reference
    existing_images,  \* the list main() mutates
    images_to_remove, \* the tuple built at lines 344-350
    pc,               \* position of the main thread
    error,            \* exception that ended main(), or "none"
    ri,               \* index of the removal loops
    remove_log,       \* remove requests sent: <<id, outcome>>
    would_remove,     \* 'Would remove' log lines (each a set of ids)
    image_id,         \* loop variable of line 366
    images,           \* tuple built at lines 368-374
    ii,               \* index in images
    uploading,        \* tracked futures (indices of tasks)
    tasks,            \* futures submitted to the executor
    would_upload,     \* ids of the 'Would upload' log lines, in order
    warnings,         \* positions logged as not found
    \* ---- load_settings()
    files,            \* the three layered files
    profile,          \* requested profile
    parser,           \* configparser.ConfigParser state: sections, defaults
    lpc,              \* position inside load_settings
    nread             \* number of settings_paths already read

mainVars == <<args, settings, snapshot, existing_images, images_to_remove, pc,
              error, ri, remove_log, would_remove, image_id, images, ii,
              uploading, tasks, would_upload, warnings>>
loadVars == <<files, profile, parser, lpc, nread>>
vars == <<mainVars, loadVars>>

\* ------------------------------------------------------------ pure helpers

\* str.split('|') on a stored value, represented by its fields; the empty
\* (or missing, after "or ''") value has the single field ''.
SplitPipe(v) == IF v = <<>> THEN <<EmptyName>> ELSE v

\* zip(a, b): stops at the shorter input
Zip(a, b) == [i \in 1..Min(Len(a), Len(b)) |-> <<a[i], b[i]>>]

\* dict(pairs).items(): one entry per key, at the position of the key's first
\* occurrence, holding the value of its last occurrence.
FirstIdx(p, key) == CHOOSE i \in 1..Len(p) : p[i][1] = key /\ \A j \in 1..(i-1) : p[j][1] # key
LastIdx(p, key) == CHOOSE i \in 1..Len(p) : p[i][1] = key /\ \A j \in (i+1)..Len(p) : p[j][1] # key

DictItems(p) ==
    LET firsts == {i \in 1..Len(p) : FirstIdx(p, p[i][1]) = i}
        nth(n) == CHOOSE i \in firsts : Cardinality({j \in firsts : j < i}) = n - 1
    IN [n \in 1..Cardinality(firsts) |->
            [id |-> p[nth(n)][1], filename |-> p[LastIdx(p, p[nth(n)][1])][2]]]

\* lines 368-374: the Image tuples of position k
ImagesOf(k) == DictItems(Zip(settings[k].id, SplitPipe(settings[k].filename)))

\* lines 344-350: nested generator, outer loop over existing_images, inner
\* loop over the range; one entry per (image, position) pair that matches.
RECURSIVE MatchesOf(_, _)
MatchesOf(img, k) ==
    IF k > args.finish THEN <<>>
    ELSE (IF settings[k].id # <<>> /\ img \in Range(settings[k].id)
          THEN <<img>> ELSE <<>>) \o MatchesOf(img, k + 1)

RECURSIVE PlanRemoval(_)
PlanRemoval(existing) ==
    IF existing = <<>> THEN <<>>
    ELSE MatchesOf(Head(existing), args.start) \o PlanRemoval(Tail(existing))

\* variant of ListRemove: the list is left as it was
ListRemoveDiscarded(l, x) == l

\* list.remove(x): drops the first occurrence
RECURSIVE ListRemove(_, _)
ListRemove(l, x) ==
    IF l = <<>> THEN <<>>
    ELSE IF Head(l) = x THEN Tail(l) ELSE <<Head(l)>> \o ListRemove(Tail(l), x)

\* concurrent.futures.wait(fs, ...).not_done
NotDone(fs) == {t \in fs : tasks[t].status # "done"}

\* the futures of fs that are finished
Done(fs) == {t \in fs : tasks[t].status = "done"}

\* variant of WaitAll: the final wait returns at the first completion
FirstCompletedOnly(fs) == fs = {} \/ Done(fs) # {}

\* line 397: concurrent.futures.wait(fs) (ALL_COMPLETED) returns once the
\* futures of fs are all finished
WaitAll(fs) == NotDone(fs) = {}

\* variant of AtCapacity: the comparison is off by one
AtCapacityOffByOne == Cardinality(uploading) > args.threads

\* line 378
AtCapacity == Cardinality(uploading) >= args.threads

\* variant of DryRunUpload: the branches of line 383 are swapped
DryRunInverted == ~args.dry_run

\* line 383
DryRunUpload == args.dry_run

\* outcomes of reliable_executor.reliably_execute(upload, ...) inside a task
Outcomes == {"returned", "RuntimeError", "OtherException"}

\* lines 192-208: number of outcome lines reliably_upload logs
OutcomeLines(r) == IF r \in {"returned", "RuntimeError"} THEN 1 ELSE 0

\* outcomes of one requests.post of remove(): a response (whose status the
\* code never looks at) or an exception
PostOutcomes == {"returned", "raised"}

\* ---------------------------------------------------------- load_settings

\* settings_paths has three entries (lines 45-49)
NumPaths == 3

DefaultSection == "DEFAULT"
FileSections == {"other"}
Profiles == {"other", "default", DefaultSection}
ParserSections == Profiles \ {DefaultSection}
Keys == {"k1", "k2"}

\* an option that is not set
NoValue == <<>>

\* the value file i gives to an option of section sec
ValueOf(i, sec) == <<i, sec>>

NoOptions == [k \in Keys |-> NoValue]

EmptyParser ==
    [sections |-> [s \in ParserSections |-> [present |-> FALSE, opts |-> NoOptions]],
     defaults |-> NoOptions]

\* A file: the options under [DEFAULT], and for every other section whether
\* its header occurs and which options follow it. A path that cannot be read
\* is skipped by ConfigParser.read and equals a file without any section.
FileContents ==
    {f \in [defaults : SUBSET Keys,
            sections : [FileSections -> [present : BOOLEAN, keys : SUBSET Keys]]] :
        \A s \in FileSections : ~f.sections[s].present => f.sections[s].keys = {}}

\* ConfigParser._read: options of a file replace the options already stored
MergeOptions(old, keys, i, sec) ==
    [k \in Keys |-> IF k \in keys THEN ValueOf(i, sec) ELSE old[k]]

\* line 54: ConfigParser.read of one path
ReadInto(p, f, i) ==
    [sections |->
        [s \in ParserSections |->
            IF s \in FileSections /\ f.sections[s].present
            THEN [present |-> TRUE,
                  opts |-> MergeOptions(p.sections[s].opts, f.sections[s].keys, i, s)]
            ELSE p.sections[s]],
     defaults |-> MergeOptions(p.defaults, f.defaults, i, DefaultSection)]

\* line 56: ConfigParser.has_section; the default section is not acknowledged
HasSection(p, name) == name # DefaultSection /\ p.sections[name].present

\* variant of Get: the default section shadows the profile's section
GetDefaultsFirst(p, name, key) ==
    IF p.defaults[key] # NoValue
    THEN p.defaults[key]
    ELSE p.sections[name].opts[key]

\* settings.get(key) / settings[key] on the returned SectionProxy: the
\* section's own option, then the default section's
Get(p, name, key) ==
    IF p.sections[name].opts[key] # NoValue
    THEN p.sections[name].opts[key]
    ELSE p.defaults[key]

\* ------------------------------------------------------------------- Init
IdOrder == [a |-> 1, b |-> 2]

SeqOfIds(S) ==
    LET nth(n) == CHOOSE x \in S : Cardinality({y \in S : IdOrder[y] < IdOrder[x]}) = n - 1
    IN [n \in 1..Cardinality(S) |-> nth(n)]

FileFields(n) == [i \in 1..n |-> <<"file", i>>]

\* "k.id" missing, or a list of ids with a "k.filename" of n fields (n = 0:
\* missing or empty). zip() ignores the fields beyond the number of ids, so
\* n ranges up to the number of ids.
PositionSettings ==
    {[id |-> <<>>, filename |-> <<>>]} \cup
    {[id |-> s, filename |-> FileFields(n)] :
        s \in SeqsUpTo(Ids, MaxConfigured), n \in 0..MaxConfigured}

RECURSIVE Configured(_, _)
Configured(f, S) ==
    IF S = {} THEN 0
    ELSE LET k == CHOOSE x \in S : TRUE IN Len(f[k].id) + Configured(f, S \ {k})

SettingsSpace ==
    {f \in [Positions -> PositionSettings] :
        /\ Configured(f, Positions) <= MaxConfigured
        /\ \A k \in Positions : Len(f[k].filename) <= Len(f[k].id)}

Init ==
    /\ args \in [start : Positions, finish : Positions, remove : BOOLEAN,
                 upload : BOOLEAN, dry_run : BOOLEAN, threads : 1..MaxThreads]
    /\ settings \in SettingsSpace
    /\ \E S \in SUBSET Ids : /\ snapshot = SeqOfIds(S)
                             /\ existing_images = SeqOfIds(S)
    /\ images_to_remove = <<>>
    /\ pc = "remove_phase"
    /\ error = "none"
    /\ ri = 1
    /\ remove_log = <<>>
    /\ would_remove = <<>>
    /\ image_id = args.start
    /\ images = <<>>
    /\ ii = 1
    /\ uploading = {}
    /\ tasks = <<>>
    /\ would_upload = <<>>
    /\ warnings = {}
    /\ files = <<>>
    /\ profile = "default"
    /\ parser = EmptyParser
    /\ lpc = "idle"
    /\ nread = 0

\* ------------------------------------------------------- removal phase

\* lines 343-350 (and the branch to line 363 when --remove is off)
BuildPlan ==
    /\ pc = "remove_phase"
    /\ IF args.remove
       THEN /\ images_to_remove' = PlanRemoval(existing_images)
            /\ pc' = IF args.dry_run THEN "would_remove" ELSE "removing"
       ELSE /\ images_to_remove' = <<>>
            /\ pc' = "upload_phase"
    /\ ri' = 1
    /\ UNCHANGED <<loadVars, args, settings, snapshot, existing_images, error, remove_log,
                   would_remove, image_id, images, ii, uploading, tasks,
                   would_upload, warnings>>

\* lines 352-356
LogWouldRemove ==
    /\ pc = "would_remove"
    /\ would_remove' = Append(would_remove, Range(images_to_remove))
    /\ pc' = "update_view"
    /\ ri' = 1
    /\ UNCHANGED <<loadVars, args, settings, snapshot, existing_images, images_to_remove,
                   error, remove_log, image_id, images, ii, uploading, tasks,
                   would_upload, warnings>>

\* lines 218-226: one iteration of remove()'s loop; an exception of
\* requests.post is not caught anywhere and ends main()
RemoveRequest ==
    /\ pc = "removing"
    /\ ri <= Len(images_to_remove)
    /\ \E o \in PostOutcomes :
          /\ remove_log' = Append(remove_log, <<images_to_remove[ri], o>>)
          /\ IF o = "raised"
             THEN pc' = "crashed" /\ error' = "RequestException" /\ ri' = ri
             ELSE pc' = pc /\ error' = error /\ ri' = ri + 1
    /\ UNCHANGED <<loadVars, args, settings, snapshot, existing_images, images_to_remove,
                   would_remove, image_id, images, ii, uploading, tasks,
                   would_upload, warnings>>

\* remove() returns (line 358 done)
RemoveReturn ==
    /\ pc = "removing"
    /\ ri > Len(images_to_remove)
    /\ pc' = "update_view"
    /\ ri' = 1
    /\ UNCHANGED <<loadVars, args, settings, snapshot, existing_images, images_to_remove,
                   error, remove_log, would_remove, image_id, images, ii,
                   uploading, tasks, would_upload, warnings>>

\* lines 360-361: one iteration; list.remove raises ValueError when the item
\* is no longer in the list
UpdateView ==
    /\ pc = "update_view"
    /\ IF ri > Len(images_to_remove)
       THEN /\ pc' = "upload_phase"
            /\ UNCHANGED <<existing_images, error, ri>>
       ELSE IF images_to_remove[ri] \in Range(existing_images)
       THEN /\ existing_images' = ListRemove(existing_images, images_to_remove[ri])
            /\ ri' = ri + 1
            /\ UNCHANGED <<pc, error>>
       ELSE /\ pc' = "crashed"
            /\ error' = "ValueError"
            /\ UNCHANGED <<existing_images, ri>>
    /\ UNCHANGED <<loadVars, args, settings, snapshot, images_to_remove, remove_log,
                   would_remove, image_id, images, ii, uploading, tasks,
                   would_upload, warnings>>

\* --------------------------------------------------------- upload phase

\* line 363-365: enter the with-block, or fall off the end of main()
EnterUpload ==
    /\ pc = "upload_phase"
    /\ IF args.upload
       THEN pc' = "upload_pos" /\ image_id' = args.start /\ uploading' = {}
       ELSE pc' = "done" /\ UNCHANGED <<image_id, uploading>>
    /\ UNCHANGED <<loadVars, args, settings, snapshot, existing_images, images_to_remove,
                   error, ri, remove_log, would_remove, images, ii, tasks,
                   would_upload, warnings>>

\* lines 366-374 and 392-396: one step of the loop over the range
NextPosition ==
    /\ pc = "upload_pos"
    /\ IF image_id > args.finish
       THEN /\ pc' = "final_wait"
            /\ UNCHANGED <<image_id, images, ii, warnings>>
       ELSE IF settings[image_id].id = <<>>
       THEN /\ warnings' = warnings \cup {image_id}
            /\ image_id' = image_id + 1
            /\ UNCHANGED <<pc, images, ii>>
       ELSE /\ images' = ImagesOf(image_id)
            /\ ii' = 1
            /\ pc' = "upload_img"
            /\ UNCHANGED <<image_id, warnings>>
    /\ UNCHANGED <<loadVars, args, settings, snapshot, existing_images, images_to_remove,
                   error, ri, remove_log, would_remove, uploading, tasks,
                   would_upload>>

\* line 375: the tuple of this position is exhausted
EndPosition ==
    /\ pc = "upload_img"
    /\ ii > Len(images)
    /\ image_id' = image_id + 1
    /\ pc' = "upload_pos"
    /\ UNCHANGED <<loadVars, args, settings, snapshot, existing_images, images_to_remove,
                   error, ri, remove_log, would_remove, images, ii, uploading,
                   tasks, would_upload, warnings>>

\* line 376
AlreadyPresent(image) == image.id \in Range(existing_images)

\* lines 376-377
SkipExisting ==
    /\ pc = "upload_img"
    /\ ii <= Len(images)
    /\ AlreadyPresent(images[ii])
    /\ ii' = ii + 1
    /\ UNCHANGED <<loadVars, args, settings, snapshot, existing_images, images_to_remove,
                   pc, error, ri, remove_log, would_remove, image_id, images,
                   uploading, tasks, would_upload, warnings>>

\* lines 378-382: blocks until one tracked future is done
WaitFirstCompleted ==
    /\ pc = "upload_img"
    /\ ii <= Len(images)
    /\ ~AlreadyPresent(images[ii])
    /\ AtCapacity
    /\ Done(uploading) # {}
    /\ uploading' = NotDone(uploading)
    /\ pc' = "submit"
    /\ UNCHANGED <<loadVars, args, settings, snapshot, existing_images, images_to_remove,
                   error, ri, remove_log, would_remove, image_id, images, ii,
                   tasks, would_upload, warnings>>

\* lines 383-391
Submit ==
    /\ \/ pc = "submit"
       \/ /\ pc = "upload_img"
          /\ ii <= Len(images)
          /\ ~AlreadyPresent(images[ii])
          /\ ~AtCapacity
    /\ IF DryRunUpload
       THEN /\ would_upload' = Append(would_upload, images[ii].id)
            /\ UNCHANGED <<tasks, uploading>>
       ELSE /\ tasks' = Append(tasks, [image |-> images[ii], status |-> "queued",
                                       result |-> "none", lines |-> 0])
            /\ uploading' = uploading \cup {Len(tasks) + 1}
            /\ UNCHANGED would_upload
    /\ ii' = ii + 1
    /\ pc' = "upload_img"
    /\ UNCHANGED <<loadVars, args, settings, snapshot, existing_images, images_to_remove,
                   error, ri, remove_log, would_remove, image_id, images,
                   warnings>>

\* ThreadPoolExecutor(args.threads): a free worker takes a queued future
WorkerStart ==
    /\ \E t \in 1..Len(tasks) :
          /\ tasks[t].status = "queued"
          /\ Cardinality({u \in 1..Len(tasks) : tasks[u].status = "running"}) < args.threads
          /\ tasks' = [tasks EXCEPT ![t].status = "running"]
    /\ UNCHANGED <<loadVars, args, settings, snapshot, existing_images, images_to_remove,
                   pc, error, ri, remove_log, would_remove, image_id, images,
                   ii, uploading, would_upload, warnings>>

\* lines 185-208: reliably_upload runs to its end in a worker; an exception
\* other than RuntimeError leaves it and is stored in the future
TaskFinish ==
    /\ \E t \in 1..Len(tasks) : \E r \in Outcomes :
          /\ tasks[t].status = "running"
          /\ tasks' = [tasks EXCEPT ![t].status = "done", ![t].result = r,
                                    ![t].lines = OutcomeLines(r)]
    /\ UNCHANGED <<loadVars, args, settings, snapshot, existing_images, images_to_remove,
                   pc, error, ri, remove_log, would_remove, image_id, images,
                   ii, uploading, would_upload, warnings>>

\* line 397: concurrent.futures.wait(uploading) returns
FinalWait ==
    /\ pc = "final_wait"
    /\ WaitAll(uploading)
    /\ pc' = "executor_exit"
    /\ UNCHANGED <<loadVars, args, settings, snapshot, existing_images, images_to_remove,
                   error, ri, remove_log, would_remove, image_id, images, ii,
                   uploading, tasks, would_upload, warnings>>

\* line 364: leaving the with-block calls executor.shutdown(wait=True)
ExecutorExit ==
    /\ pc = "executor_exit"
    /\ \A t \in 1..Len(tasks) : tasks[t].status = "done"
    /\ pc' = "done"
    /\ UNCHANGED <<loadVars, args, settings, snapshot, existing_images, images_to_remove,
                   error, ri, remove_log, would_remove, image_id, images, ii,
                   uploading, tasks, would_upload, warnings>>

Next ==
    \/ BuildPlan
    \/ LogWouldRemove
    \/ RemoveRequest
    \/ RemoveReturn
    \/ UpdateView
    \/ EnterUpload
    \/ NextPosition
    \/ EndPosition
    \/ SkipExisting
    \/ WaitFirstCompleted
    \/ Submit
    \/ WorkerStart
    \/ TaskFinish
    \/ FinalWait
    \/ ExecutorExit

Spec == Init /\ [][Next]_vars

\* ------------------------------------------------- load_settings actions

InitLoad ==
    /\ args = [start |-> 1, finish |-> 1, remove |-> FALSE, upload |-> FALSE,
               dry_run |-> FALSE, threads |-> 1]
    /\ settings = [k \in Positions |-> [id |-> <<>>, filename |-> <<>>]]
    /\ snapshot = <<>>
    /\ existing_images = <<>>
    /\ images_to_remove = <<>>
    /\ pc = "idle"
    /\ error = "none"
    /\ ri = 1
    /\ remove_log = <<>>
    /\ would_remove = <<>>
    /\ image_id = 1
    /\ images = <<>>
    /\ ii = 1
    /\ uploading = {}
    /\ tasks = <<>>
    /\ would_upload = <<>>
    /\ warnings = {}
    /\ files \in [1..NumPaths -> FileContents]
    /\ profile \in Profiles
    /\ parser = EmptyParser
    /\ lpc = "read"
    /\ nread = 0

\* line 54: settings.read(settings_paths), one path per step, in order
ReadFile ==
    /\ lpc = "read"
    /\ nread < NumPaths
    /\ parser' = ReadInto(parser, files[nread + 1], nread + 1)
    /\ nread' = nread + 1
    /\ UNCHANGED <<mainVars, files, profile, lpc>>

\* lines 56-58 and 64
ReturnSection ==
    /\ lpc = "read"
    /\ nread = NumPaths
    /\ HasSection(parser, profile)
    /\ lpc' = "returned"
    /\ UNCHANGED <<mainVars, files, profile, parser, nread>>

\* lines 59-64: ConfigParser.add_section raises ValueError for the name of
\* the default section
AddSection ==
    /\ lpc = "read"
    /\ nread = NumPaths
    /\ ~HasSection(parser, profile)
    /\ IF profile = DefaultSection
       THEN lpc' = "raised" /\ UNCHANGED parser
       ELSE /\ parser' = [parser EXCEPT !.sections[profile].present = TRUE]
            /\ lpc' = "returned"
    /\ UNCHANGED <<mainVars, files, profile, nread>>

NextLoad ==
    \/ ReadFile
    \/ ReturnSection
    \/ AddSection

SpecSettings == InitLoad /\ [][NextLoad]_vars

\* ================================================================ claims

TaskIds == 1..Len(tasks)

\* futures submitted to the executor and not yet completed
InFlight == {t \in TaskIds : tasks[t].status # "done"}

Finished == pc \in {"done", "crashed"}

UploadPcs == {"upload_pos", "upload_img", "submit", "final_wait", "executor_exit"}

\* ids that received a remove request
Requested == {remove_log[j][1] : j \in 1..Len(remove_log)}

\* ids dispatched for upload or logged as 'Would upload'
DispatchedIds == {tasks[t].image.id : t \in TaskIds} \cup Range(would_upload)

\* C1: at every moment the number of submitted, not yet completed
\* reliably_upload tasks is at most --threads.
C1_BoundedInFlight == Cardinality(InFlight) <= args.threads

\* the pool is full again after a replacement, and the future that completed
\* first was not the one submitted first
C1_Witness ==
    /\ args.threads = 2
    /\ Len(tasks) > args.threads
    /\ Cardinality(InFlight) = args.threads
    /\ tasks[1].status # "done"

\* C2: under --dry-run no remove request is sent and no upload task is
\* submitted, whatever the other flags, the configuration and the snapshot.
C2_DryRunNoRequests == args.dry_run => (remove_log = <<>> /\ tasks = <<>>)

\* a finished dry run that had something to remove and something to upload
C2_Witness ==
    /\ args.dry_run /\ args.remove /\ args.upload
    /\ pc = "done"
    /\ Len(would_remove) = 1 /\ would_remove[1] # {}
    /\ would_upload # <<>>

\* C3: once the final wait of line 397 has returned, every submitted task
\* has completed, the ones no longer tracked in 'uploading' included.
C3_FinalBarrier ==
    pc \in {"executor_exit", "done"} => \A t \in TaskIds : tasks[t].status = "done"

\* main() has ended after tasks were dropped from the tracked set
C3_Witness ==
    /\ pc = "done"
    /\ Len(tasks) > args.threads
    /\ \E t \in TaskIds : t \notin uploading

\* ids configured in the range with a filename at the same list position
\* the positions of range(args.start, args.finish+1)
InRange == args.start..args.finish

ConfiguredPaired ==
    UNION {{settings[k].id[i] : i \in 1..Min(Len(settings[k].id), Len(settings[k].filename))}
           : k \in InRange}

ConfiguredIds == UNION {Range(settings[k].id) : k \in InRange}

\* snapshot items planned for removal in this run
PlannedIds == IF args.remove THEN Range(snapshot) \cap ConfiguredIds ELSE {}

WorkingView == Range(snapshot) \ PlannedIds

\* C4: in a run with --upload (that no exception of a remove request cut
\* short) the ids dispatched or logged as 'Would upload' are exactly the
\* configured ids with a paired filename that are not in the working view
\* (snapshot minus the items planned for removal).
C4_UploadsAreDifference ==
    (Finished /\ args.upload /\ error # "RequestException")
        => DispatchedIds = ConfiguredPaired \ WorkingView

\* C5: an id configured more than once (at two positions, or twice in one
\* list) is neither merged silently nor dispatched more than once.
C5_UniqueDispatch ==
    /\ \A t \in TaskIds : \A u \in TaskIds : t # u => tasks[t].image.id # tasks[u].image.id
    /\ \A i \in 1..Len(would_upload) : \A j \in 1..Len(would_upload) :
            i # j => would_upload[i] # would_upload[j]
    /\ pc = "upload_img" =>
            Len(images) = Len(Zip(settings[image_id].id, SplitPipe(settings[image_id].filename)))

\* C6: every completed upload task has logged exactly one outcome line,
\* whichever way the underlying upload ended.
C6_OneOutcomePerTask == \A t \in TaskIds : tasks[t].status = "done" => tasks[t].lines = 1

\* C7: after a remove request failed, every other planned item still gets
\* its request and the run goes on to its end.
C7_RemovalFailureIsolated ==
    (Finished /\ \E j \in 1..Len(remove_log) : remove_log[j][2] = "raised")
        => (pc = "done" /\ Range(images_to_remove) \subseteq Requested)

\* ids whose remove request got a response (counted as removed remotely)
RemovedRemotely ==
    {remove_log[j][1] : j \in {n \in 1..Len(remove_log) : remove_log[n][2] = "returned"}}

\* C8 (as stated): in the upload phase an existing item with no successful
\* remove request is still in existing_images.
C8_ViewKeepsUnremoved ==
    pc \in UploadPcs =>
        \A img \in Range(snapshot) : img \notin RemovedRemotely => AlreadyPresent([id |-> img])

\* C8 (amended): in the upload phase the view is the snapshot without the
\* planned items, whether or not a remove request was sent or succeeded.
C8_ViewIsSnapshotMinusPlan ==
    pc \in UploadPcs =>
        \A img \in Ids : AlreadyPresent([id |-> img])
                            <=> img \in Range(snapshot) \ Range(images_to_remove)

\* a dry run logs 'Would upload' for an item it did not remove remotely
C8_Witness ==
    /\ args.dry_run
    /\ pc \in UploadPcs
    /\ \E img \in Range(images_to_remove) : img \in Range(would_upload)

\* C10: the removal plan holds only snapshot items, each at most once; no
\* item gets two remove requests and taking the plan out of the view never
\* fails.
C10_PlanIsSet ==
    /\ Range(images_to_remove) \subseteq Range(snapshot)
    /\ \A i \in 1..Len(images_to_remove) : \A j \in 1..Len(images_to_remove) :
            i # j => images_to_remove[i] # images_to_remove[j]
    /\ \A i \in 1..Len(remove_log) : \A j \in 1..Len(remove_log) :
            i # j => remove_log[i][1] # remove_log[j][1]
    /\ error # "ValueError"

\* ---- load_settings

\* the last file that sets key in section sec, 0 when none does
LastSetter(sec, key) ==
    LET setters == {i \in 1..NumPaths :
                      IF sec = DefaultSection THEN key \in files[i].defaults
                      ELSE sec \in FileSections /\ key \in files[i].sections[sec].keys}
    IN IF setters = {} THEN 0 ELSE CHOOSE i \in setters : \A j \in setters : j <= i

\* what the claim says a lookup yields
Layered(key) ==
    IF profile # DefaultSection /\ LastSetter(profile, key) # 0
    THEN ValueOf(LastSetter(profile, key), profile)
    ELSE IF LastSetter(DefaultSection, key) # 0
    THEN ValueOf(LastSetter(DefaultSection, key), DefaultSection)
    ELSE NoValue

LoadFinished == lpc \in {"returned", "raised"}

\* C9 (as stated): load_settings returns, for every profile, a view whose
\* lookups yield the profile section's value, else the [DEFAULT] value, the
\* later file winning.
C9_LayeredLookup ==
    LoadFinished => (lpc = "returned" /\ \A k \in Keys :
                        profile # DefaultSection => Get(parser, profile, k) = Layered(k))

\* C9 (amended): the same for every profile other than the reserved name
\* DEFAULT.
C9_LayeredLookupNamedProfile ==
    (LoadFinished /\ profile # DefaultSection) =>
        (lpc = "returned" /\ \A k \in Keys : Get(parser, profile, k) = Layered(k))

\* a profile without a section in any file exposes a [DEFAULT] value that
\* a later file overrode
C9_Witness ==
    /\ lpc = "returned"
    /\ profile = "default"
    /\ \E k \in Keys : /\ k \in files[1].defaults /\ k \in files[3].defaults
                       /\ Get(parser, profile, k) = ValueOf(3, DefaultSection)

====
